---- MODULE Spec2Model ----
(***************************************************************************)
(* Team-scoped access control and task/project state transitions of the    *)
(* to-do manager API (projects/views.py, projects/admin.py).               *)
(*                                                                         *)
(* The store holds teams, tasks and projects.  Every handler of the view   *)
(* sets is one action; `last` is the response the handler returned.        *)
(* Querysets are modelled as the bags of rows the SQL join produces, so    *)
(* that .distinct() and the (lead OR member) filter are computed, not      *)
(* assumed.                                                                *)
(***************************************************************************)
EXTENDS Integers, FiniteSets, Sequences, Bags, TLC

\* ---------------------------------------------------------------- bounds
NumUsers == 2
MaxTeams == 2
MaxTasks == 1
MaxProjects == 1
\* concurrent join requests in flight (SpecJoin)
MaxJoinReqs == 2
\* teams ever created in SpecTeam, where a team has the most states
MaxManagedTeams == 1

Users == 1..NumUsers
TeamIds == 1..MaxTeams
TaskIds == 1..MaxTasks
ProjectIds == 1..MaxProjects
JoinReqs == 1..MaxJoinReqs

\* request.user.is_superuser: user 1 is the superuser account
Superusers == {1}

\* Python None / SQL NULL
None == 0
\* a row that was never inserted, and a row that was deleted (ids are not reused)
NoRow == [row |-> "never"]
Deleted == [row |-> "deleted"]

\* due_date values: timezone.now().date(), and the day before it
Today == "today"
Yesterday == "yesterday"
\* completed_at values: NULL, and timezone.now() at completion
NullTime == "null"
Now == "now"

Statuses == {"todo", "progress", "done"}

VARIABLES teams, tasks, projects, last, reqs

vars == <<teams, tasks, projects, last, reqs>>

\* ---------------------------------------------------------------- store
Exists(tbl, id) == id \in DOMAIN tbl /\ tbl[id] # NoRow /\ tbl[id] # Deleted

\* the id an INSERT gets: the first id never used
NextId(tbl) ==
    IF \E i \in DOMAIN tbl : tbl[i] = NoRow
    THEN CHOOSE i \in DOMAIN tbl : tbl[i] = NoRow /\ \A j \in DOMAIN tbl : j < i => tbl[j] # NoRow
    ELSE None

\* an insert that does not look for an existing through row
NaiveAdd(members, u) == members (+) SetToBag({u})

\* team.members.add(user): inserts the through row unless it is there already
M2MAdd(members, u) == IF BagIn(u, members) THEN members ELSE members (+) SetToBag({u})

\* team.team_lead_id == user.id or team.members.filter(id=user.id).exists()
IsTeamMember(team, u) == team.team_lead = u \/ BagIn(u, team.members)

\* number of rows of the LEFT OUTER JOIN team x team_members that pass
\* Q(team_lead=user) | Q(members=user), for one team
JoinRowCount(team, u) ==
    IF team.members = EmptyBag
    THEN (IF team.team_lead = u THEN 1 ELSE 0)
    ELSE IF team.team_lead = u THEN BagCardinality(team.members)
    ELSE CopiesIn(u, team.members)

\* a result set: each id with the number of rows it has, for the ids that have rows
ResultRows(count) == [i \in {j \in DOMAIN count : count[j] > 0} |-> count[i]]

\* QuerySet.distinct()
Distinct(rows) == SetToBag(BagToSet(rows))

\* queryset.get(pk=pk) inside get_object(): 404, the row, or MultipleObjectsReturned
GetObjectCode(rows, pk) ==
    IF ~BagIn(pk, rows) THEN 404
    ELSE IF CopiesIn(pk, rows) = 1 THEN 200
    ELSE 500

\* validated_data.get(field, default)
Get(data, field, default) == IF field \in DOMAIN data THEN data[field] ELSE default

NoArg == <<None, None>>

\* the response of the last request: the handler, the requester, the target's pk, the
\* status code and detail, the rows of a listing, the team and responsible (or task id)
\* the request resolved to, and the target's row before the request
Resp(op, u, pk, code, detail, rows, arg, prev) ==
    [op |-> op, user |-> u, pk |-> pk, code |-> code, detail |-> detail,
     rows |-> rows, arg |-> arg, prev |-> prev]

\* a row that is in its table
RealRow(row) == row # NoRow /\ row # Deleted

Row(tbl, id) == IF id \in DOMAIN tbl THEN tbl[id] ELSE NoRow

Idle == [user |-> None, team |-> None, lead |-> None, pc |-> "idle", code |-> 0, detail |-> ""]

\* ---------------------------------------------------------------- TeamViewSet
TeamFilter(u) ==
    ResultRows([t \in {i \in TeamIds : Exists(teams, i)} |-> JoinRowCount(teams[t], u)])

TeamQuerysetNoDistinct(u) == TeamFilter(u)

TeamQueryset(u) == Distinct(TeamFilter(u))

TeamList(u) ==
    /\ last' = Resp("team_list", u, None, 200, "", TeamQueryset(u), NoArg, NoRow)
    /\ UNCHANGED <<teams, tasks, projects, reqs>>

TeamRetrieve(u, t) ==
    LET found == GetObjectCode(TeamQueryset(u), t) IN
    /\ last' = Resp("team_retrieve", u, t, found, "",
                    IF found = 200 THEN SetToBag({t}) ELSE EmptyBag, NoArg, Row(teams, t))
    /\ UNCHANGED <<teams, tasks, projects, reqs>>

NewTeam(u) == [team_lead |-> u, members |-> M2MAdd(EmptyBag, u), is_active |-> TRUE]

TeamCreate(u) ==
    /\ NextId(teams) # None
    /\ LET id == NextId(teams) IN
        /\ teams' = [teams EXCEPT ![id] = NewTeam(u)]
        /\ last' = Resp("team_create", u, id, 201, "", EmptyBag, NoArg, NoRow)
    /\ UNCHANGED <<tasks, projects, reqs>>

\* self.request.user.is_superuser or team.team_lead_id == self.request.user.id
MayChangeTeam(team, u) == u \in Superusers \/ team.team_lead = u

TeamUpdate(u, t, active) ==
    LET found == GetObjectCode(TeamQueryset(u), t) IN
    /\ IF found # 200
       THEN /\ last' = Resp("team_update", u, t, found, "", EmptyBag, NoArg, Row(teams, t))
            /\ UNCHANGED teams
       ELSE IF ~MayChangeTeam(teams[t], u)
       THEN /\ last' = Resp("team_update", u, t, 403, "", EmptyBag, NoArg, teams[t])
            /\ UNCHANGED teams
       ELSE /\ teams' = [teams EXCEPT ![t].is_active = active,
                                      ![t].team_lead = teams[t].team_lead]
            /\ last' = Resp("team_update", u, t, 200, "", EmptyBag, NoArg, teams[t])
    /\ UNCHANGED <<tasks, projects, reqs>>

\* SpecTeam, the only specification that deletes teams, holds no task and no project,
\* so the on_delete rule of their team foreign key is not exercised
TeamDestroy(u, t) ==
    LET found == GetObjectCode(TeamQueryset(u), t) IN
    /\ IF found # 200
       THEN /\ last' = Resp("team_destroy", u, t, found, "", EmptyBag, NoArg, Row(teams, t))
            /\ UNCHANGED teams
       ELSE IF ~MayChangeTeam(teams[t], u)
       THEN /\ last' = Resp("team_destroy", u, t, 403, "", EmptyBag, NoArg, teams[t])
            /\ UNCHANGED teams
       ELSE /\ teams' = [teams EXCEPT ![t] = Deleted]
            /\ last' = Resp("team_destroy", u, t, 204, "", EmptyBag, NoArg, teams[t])
    /\ UNCHANGED <<tasks, projects, reqs>>

\* Team.objects.get(pk=pk, is_active=True)
JoinLookupFound(t) == Exists(teams, t) /\ teams[t].is_active

JoinIsMemberNoLead(lead, members, u) == BagIn(u, members)

\* team.team_lead_id == request.user.id or team.members.filter(id=request.user.id).exists()
JoinIsMember(lead, members, u) == lead = u \/ BagIn(u, members)

Join(u, t) ==
    /\ IF ~JoinLookupFound(t)
       THEN /\ last' = Resp("join", u, t, 404, "Team not found", EmptyBag, NoArg, Row(teams, t))
            /\ UNCHANGED teams
       ELSE IF JoinIsMember(teams[t].team_lead, teams[t].members, u)
       THEN /\ last' = Resp("join", u, t, 200, "You are already a team member",
                            EmptyBag, NoArg, teams[t])
            /\ UNCHANGED teams
       ELSE /\ teams' = [teams EXCEPT ![t].members = M2MAdd(teams[t].members, u)]
            /\ last' = Resp("join", u, t, 200, "Joined team successfully",
                            EmptyBag, NoArg, teams[t])
    /\ UNCHANGED <<tasks, projects, reqs>>

\* TeamAdmin change form: filter_horizontal = ('members',) lets staff take a user out
\* of the member set, the team lead included
AdminRemoveMember(t, m) ==
    /\ Exists(teams, t)
    /\ BagIn(m, teams[t].members)
    /\ teams' = [teams EXCEPT ![t].members = SetToBag(BagToSet(teams[t].members) \ {m})]
    /\ last' = Resp("admin_team_members", None, t, 200, "", EmptyBag, NoArg, teams[t])
    /\ UNCHANGED <<tasks, projects, reqs>>

\* ---------------------------------------------------------------- TaskViewSet
\* Q(team__team_lead=user) | Q(team__members=user) over task JOIN team JOIN team_members
TaskFilter(u) ==
    ResultRows([k \in {i \in TaskIds : Exists(tasks, i) /\ Exists(teams, tasks[i].team)} |->
                  JoinRowCount(teams[tasks[k].team], u)])

TaskQueryset(u) == Distinct(TaskFilter(u))

\* self.queryset: every task, whatever its team
AllTasks == SetToBag({k \in TaskIds : Exists(tasks, k)})

TaskList(u) ==
    /\ last' = Resp("task_list", u, None, 200, "", TaskQueryset(u), NoArg, NoRow)
    /\ UNCHANGED <<teams, tasks, projects, reqs>>

TaskRetrieve(u, k) ==
    LET found == GetObjectCode(TaskQueryset(u), k) IN
    /\ last' = Resp("task_retrieve", u, k, found, "",
                    IF found = 200 THEN SetToBag({k}) ELSE EmptyBag, NoArg, Row(tasks, k))
    /\ UNCHANGED <<teams, tasks, projects, reqs>>

\* self.queryset.filter(due_date__lt=today, is_completed=False)
OverdueRows ==
    SetToBag({k \in BagToSet(AllTasks) : tasks[k].due_date = Yesterday /\ ~tasks[k].is_completed})

TaskOverdue(u) ==
    /\ last' = Resp("task_overdue", u, None, 200, "", OverdueRows, NoArg, NoRow)
    /\ UNCHANGED <<teams, tasks, projects, reqs>>

\* self.queryset.filter(due_date=today)
TodayRows ==
    SetToBag({k \in BagToSet(AllTasks) : tasks[k].due_date = Today})

TaskToday(u) ==
    /\ last' = Resp("task_today", u, None, 200, "", TodayRows, NoArg, NoRow)
    /\ UNCHANGED <<teams, tasks, projects, reqs>>

ValidateNoResponsibleCheck(u, team, responsible) ==
    IF team = None THEN 400
    ELSE IF ~IsTeamMember(teams[team], u) /\ u \notin Superusers THEN 403
    ELSE 200

\* _validate_team_access: the status the request ends with, 200 when nothing is raised
ValidateTeamAccess(u, team, responsible) ==
    IF team = None THEN 400
    ELSE IF ~IsTeamMember(teams[team], u) /\ u \notin Superusers THEN 403
    ELSE IF responsible # None /\ ~IsTeamMember(teams[team], responsible) THEN 400
    ELSE 200

\* validated_data holds model instances: a team or a responsible named in it exists
ValidTeamRef(team) == team = None \/ Exists(teams, team)

TaskCreate(u, team, responsible, due) ==
    /\ ValidTeamRef(team)
    /\ NextId(tasks) # None
    /\ LET code == ValidateTeamAccess(u, team, responsible)
           id == NextId(tasks) IN
        IF code # 200
        THEN /\ last' = Resp("task_create", u, None, code, "", EmptyBag,
                             <<team, responsible>>, NoRow)
             /\ UNCHANGED tasks
        ELSE /\ tasks' = [tasks EXCEPT ![id] =
                            [team |-> team, responsible |-> responsible, due_date |-> due,
                             status |-> "todo", is_completed |-> FALSE,
                             completed_at |-> NullTime]]
             /\ last' = Resp("task_create", u, id, 201, "", EmptyBag,
                             <<team, responsible>>, NoRow)
    /\ UNCHANGED <<teams, projects, reqs>>

\* serializer.save() on update: the fields the request carries are written
SaveTask(row, data) ==
    [row EXCEPT !.team = Get(data, "team", row.team),
                !.responsible = Get(data, "responsible", row.responsible),
                !.status = Get(data, "status", row.status)]

TaskUpdate(u, k, data) ==
    /\ ValidTeamRef(Get(data, "team", None))
    /\ LET found == GetObjectCode(TaskQueryset(u), k) IN
        IF found # 200
        THEN /\ last' = Resp("task_update", u, k, found, "", EmptyBag,
                             IF Exists(tasks, k)
                             THEN <<Get(data, "team", tasks[k].team),
                                    Get(data, "responsible", tasks[k].responsible)>>
                             ELSE NoArg,
                             Row(tasks, k))
             /\ UNCHANGED tasks
        ELSE LET team == Get(data, "team", tasks[k].team)
                 responsible == Get(data, "responsible", tasks[k].responsible)
                 code == ValidateTeamAccess(u, team, responsible) IN
             /\ last' = Resp("task_update", u, k, code, "", EmptyBag,
                             <<team, responsible>>, tasks[k])
             /\ tasks' = IF code = 200 THEN [tasks EXCEPT ![k] = SaveTask(tasks[k], data)]
                         ELSE tasks
    /\ UNCHANGED <<teams, projects, reqs>>

\* Task.complete()
CompleteRow(row) ==
    [row EXCEPT !.is_completed = TRUE, !.status = "done", !.completed_at = Now]

TaskComplete(u, k) ==
    LET found == GetObjectCode(TaskQueryset(u), k) IN
    /\ last' = Resp("task_complete", u, k, found, "", EmptyBag, NoArg, Row(tasks, k))
    /\ tasks' = IF found = 200 THEN [tasks EXCEPT ![k] = CompleteRow(tasks[k])] ELSE tasks
    /\ UNCHANGED <<teams, projects, reqs>>

ReopenRowKeepStatus(row) ==
    [row EXCEPT !.is_completed = FALSE, !.completed_at = NullTime]

ReopenRow(row) ==
    [row EXCEPT !.is_completed = FALSE, !.status = "todo", !.completed_at = NullTime]

TaskReopen(u, k) ==
    LET found == GetObjectCode(TaskQueryset(u), k) IN
    /\ last' = Resp("task_reopen", u, k, found, "", EmptyBag, NoArg, Row(tasks, k))
    /\ tasks' = IF found = 200 THEN [tasks EXCEPT ![k] = ReopenRow(tasks[k])] ELSE tasks
    /\ UNCHANGED <<teams, projects, reqs>>

\* TaskAdmin.mark_completed: task.complete() for every task of the selection
AdminMarkCompleted(S) ==
    /\ S # {}
    /\ \A k \in S : Exists(tasks, k)
    /\ tasks' = [k \in TaskIds |-> IF k \in S THEN CompleteRow(tasks[k]) ELSE tasks[k]]
    /\ last' = Resp("admin_mark_completed", None, None, 200, "", SetToBag(S), NoArg, NoRow)
    /\ UNCHANGED <<teams, projects, reqs>>

\* ---------------------------------------------------------------- ProjectViewSet
ProjectFilter(u) ==
    ResultRows([p \in {i \in ProjectIds : Exists(projects, i) /\ Exists(teams, projects[i].team)} |->
                  JoinRowCount(teams[projects[p].team], u)])

ProjectQueryset(u) == Distinct(ProjectFilter(u))

\* ProjectViewSet._validate_team_access
ValidateProjectTeamAccess(u, team) ==
    IF team = None THEN 400
    ELSE IF ~IsTeamMember(teams[team], u) /\ u \notin Superusers THEN 403
    ELSE 200

ProjectCreate(u, team) ==
    /\ ValidTeamRef(team)
    /\ NextId(projects) # None
    /\ LET code == ValidateProjectTeamAccess(u, team)
           id == NextId(projects) IN
        IF code # 200
        THEN /\ last' = Resp("project_create", u, None, code, "", EmptyBag,
                             <<team, None>>, NoRow)
             /\ UNCHANGED projects
        ELSE /\ projects' = [projects EXCEPT ![id] = [team |-> team, tasks |-> {}]]
             /\ last' = Resp("project_create", u, id, 201, "", EmptyBag,
                             <<team, None>>, NoRow)
    /\ UNCHANGED <<teams, tasks, reqs>>

ProjectUpdate(u, p, data) ==
    /\ ValidTeamRef(Get(data, "team", None))
    /\ LET found == GetObjectCode(ProjectQueryset(u), p) IN
        IF found # 200
        THEN /\ last' = Resp("project_update", u, p, found, "", EmptyBag, NoArg,
                             Row(projects, p))
             /\ UNCHANGED projects
        ELSE LET team == Get(data, "team", projects[p].team)
                 code == ValidateProjectTeamAccess(u, team) IN
             /\ last' = Resp("project_update", u, p, code, "", EmptyBag,
                             <<team, None>>, projects[p])
             /\ projects' = IF code = 200 THEN [projects EXCEPT ![p].team = team]
                            ELSE projects
    /\ UNCHANGED <<teams, tasks, reqs>>

AddTaskLookupAnyTeam(team, task_id) == Exists(tasks, task_id)

\* Task.objects.get(id=task_id, team=project.team) finds a row
AddTaskLookup(team, task_id) == Exists(tasks, task_id) /\ tasks[task_id].team = team

AddTask(u, p, task_id) ==
    LET found == GetObjectCode(ProjectQueryset(u), p) IN
    /\ IF found # 200
       THEN /\ last' = Resp("add_task", u, p, found, "", EmptyBag,
                            <<None, task_id>>, Row(projects, p))
            /\ UNCHANGED projects
       ELSE IF ~AddTaskLookup(projects[p].team, task_id)
       THEN /\ last' = Resp("add_task", u, p, 404, "Task not found in this project team",
                            EmptyBag, <<None, task_id>>, projects[p])
            /\ UNCHANGED projects
       ELSE /\ projects' = [projects EXCEPT ![p].tasks = projects[p].tasks \cup {task_id}]
            /\ last' = Resp("add_task", u, p, 200, "", EmptyBag,
                            <<None, task_id>>, projects[p])
    /\ UNCHANGED <<teams, tasks, reqs>>

\* ---------------------------------------------------------------- join, step by step
\* line 97: team = Team.objects.select_related('team_lead').get(pk=pk, is_active=True)
JoinLookup(r) ==
    /\ reqs[r].pc = "lookup"
    /\ reqs' = [reqs EXCEPT ![r] =
                  IF JoinLookupFound(reqs[r].team)
                  THEN [reqs[r] EXCEPT !.pc = "check", !.lead = teams[reqs[r].team].team_lead]
                  ELSE [reqs[r] EXCEPT !.pc = "done", !.code = 404, !.detail = "Team not found"]]
    /\ UNCHANGED <<teams, tasks, projects, last>>

\* line 101: the lead id of the instance in hand, the member rows of the store
JoinCheck(r) ==
    /\ reqs[r].pc = "check"
    /\ reqs' = [reqs EXCEPT ![r] =
                  IF JoinIsMember(reqs[r].lead, teams[reqs[r].team].members, reqs[r].user)
                  THEN [reqs[r] EXCEPT !.pc = "done", !.code = 200,
                                       !.detail = "You are already a team member"]
                  ELSE [reqs[r] EXCEPT !.pc = "add"]]
    /\ UNCHANGED <<teams, tasks, projects, last>>

\* line 108: team.members.add(request.user), one statement of the store
JoinAdd(r) ==
    /\ reqs[r].pc = "add"
    /\ teams' = [teams EXCEPT ![reqs[r].team].members = M2MAdd(@, reqs[r].user)]
    /\ reqs' = [reqs EXCEPT ![r] = [reqs[r] EXCEPT !.pc = "done", !.code = 200,
                                              !.detail = "Joined team successfully"]]
    /\ UNCHANGED <<tasks, projects, last>>

\* ---------------------------------------------------------------- specifications
NoLast == Resp("none", None, None, 0, "", EmptyBag, NoArg, NoRow)

\* the empty store
Init ==
    /\ teams = [t \in TeamIds |-> NoRow]
    /\ tasks = [k \in TaskIds |-> NoRow]
    /\ projects = [p \in ProjectIds |-> NoRow]
    /\ last = NoLast
    /\ reqs = [r \in JoinReqs |-> Idle]

\* the user who created team t, and the store after every team was created
LeadOf(t) == ((t - 1) % NumUsers) + 1

InitTeams ==
    /\ teams = [t \in TeamIds |-> NewTeam(LeadOf(t))]
    /\ tasks = [k \in TaskIds |-> NoRow]
    /\ projects = [p \in ProjectIds |-> NoRow]
    /\ last = NoLast
    /\ reqs = [r \in JoinReqs |-> Idle]

\* the first user who is no superuser
FirstOrdinaryUser == CHOOSE u \in Users \ Superusers : \A v \in Users \ Superusers : u <= v

\* the store after every team was created and the first ordinary user joined each of them
InitSharedTeams ==
    /\ teams = [t \in TeamIds |->
                  [NewTeam(LeadOf(t)) EXCEPT !.members = M2MAdd(@, FirstOrdinaryUser)]]
    /\ tasks = [k \in TaskIds |-> NoRow]
    /\ projects = [p \in ProjectIds |-> NoRow]
    /\ last = NoLast
    /\ reqs = [r \in JoinReqs |-> Idle]

\* one active team, any lead and members, and MaxJoinReqs join requests just received
InitJoin ==
    /\ \E l \in Users, S \in SUBSET Users :
          teams = [t \in TeamIds |->
                     IF t = 1 THEN [team_lead |-> l, members |-> SetToBag(S), is_active |-> TRUE]
                     ELSE NoRow]
    /\ tasks = [k \in TaskIds |-> NoRow]
    /\ projects = [p \in ProjectIds |-> NoRow]
    /\ last = NoLast
    /\ reqs \in [JoinReqs -> {[user |-> u, team |-> 1, lead |-> None, pc |-> "lookup",
                                 code |-> 0, detail |-> ""] : u \in Users}]

TeamRefs == TeamIds \cup {None}
UserRefs == Users \cup {None}
TaskPayloads ==
    {[team |-> t] : t \in TeamRefs} \cup {[responsible |-> r] : r \in UserRefs}
    \cup {[team |-> t, responsible |-> r] : t \in TeamRefs, r \in UserRefs}
StatusPayloads == {[status |-> s] : s \in Statuses}
ProjectPayloads == {[team |-> t] : t \in TeamRefs}

DoTeamList == \E u \in Users : TeamList(u)
DoTeamRetrieve == \E u \in Users, t \in TeamIds : TeamRetrieve(u, t)
DoTeamCreate ==
    /\ Cardinality({t \in TeamIds : teams[t] # NoRow}) < MaxManagedTeams
    /\ \E u \in Users : TeamCreate(u)
DoTeamUpdate == \E u \in Users, t \in TeamIds, a \in BOOLEAN : TeamUpdate(u, t, a)
DoTeamDestroy == \E u \in Users, t \in TeamIds : TeamDestroy(u, t)
DoJoin == \E u \in Users, t \in TeamIds : Join(u, t)
DoAdminRemoveMember == \E t \in TeamIds, m \in Users : AdminRemoveMember(t, m)

DoTaskList == \E u \in Users : TaskList(u)
DoTaskRetrieve == \E u \in Users, k \in TaskIds : TaskRetrieve(u, k)
DoTaskOverdue == \E u \in Users : TaskOverdue(u)
DoTaskToday == \E u \in Users : TaskToday(u)
DoTaskCreate ==
    \E u \in Users, t \in TeamRefs, r \in UserRefs, d \in {Yesterday, Today} :
        TaskCreate(u, t, r, d)
DoTaskUpdate == \E u \in Users, k \in TaskIds, data \in TaskPayloads : TaskUpdate(u, k, data)
\* requests that name no responsible and no due date of interest
DoTaskCreatePlain == \E u \in Users, t \in TeamRefs : TaskCreate(u, t, None, Today)
DoTaskCreateDue ==
    \E u \in Users, t \in TeamRefs, d \in {Yesterday, Today} : TaskCreate(u, t, None, d)
DoTaskMove == \E u \in Users, k \in TaskIds, data \in ProjectPayloads : TaskUpdate(u, k, data)
DoTaskSetStatus == \E u \in Users, k \in TaskIds, data \in StatusPayloads : TaskUpdate(u, k, data)
DoTaskComplete == \E u \in Users, k \in TaskIds : TaskComplete(u, k)
DoTaskReopen == \E u \in Users, k \in TaskIds : TaskReopen(u, k)
DoAdminMarkCompleted == \E S \in SUBSET TaskIds : AdminMarkCompleted(S)

DoProjectCreate == \E u \in Users, t \in TeamRefs : ProjectCreate(u, t)
DoProjectUpdate ==
    \E u \in Users, p \in ProjectIds, data \in ProjectPayloads : ProjectUpdate(u, p, data)
DoAddTask == \E u \in Users, p \in ProjectIds, k \in 1..(MaxTasks + 1) : AddTask(u, p, k)

DoJoinLookup == \E r \in JoinReqs : JoinLookup(r)
DoJoinCheck == \E r \in JoinReqs : JoinCheck(r)
DoJoinAdd == \E r \in JoinReqs : JoinAdd(r)

\* teams: create, list, retrieve, update, delete, join, and the admin's member edits
NextTeam ==
    \/ DoTeamList
    \/ DoTeamRetrieve
    \/ DoTeamCreate
    \/ DoTeamUpdate
    \/ DoTeamDestroy
    \/ DoJoin
    \/ DoAdminRemoveMember

SpecTeam == Init /\ [][NextTeam]_vars

\* task access: join, task create and update, and the four task reads
NextTask ==
    \/ DoJoin
    \/ DoTaskCreate
    \/ DoTaskUpdate
    \/ DoTaskList
    \/ DoTaskRetrieve
    \/ DoTaskOverdue
    \/ DoTaskToday

SpecTask == InitTeams /\ [][NextTask]_vars

\* task lifecycle: create, status update, complete, reopen, the admin's mark_completed,
\* and the overdue listing, which reads is_completed
NextLife ==
    \/ DoTaskCreateDue
    \/ DoTaskOverdue
    \/ DoTaskSetStatus
    \/ DoTaskComplete
    \/ DoTaskReopen
    \/ DoAdminMarkCompleted

SpecLife == InitTeams /\ [][NextLife]_vars

\* projects: project create, update and add_task, task create and update
NextProject ==
    \/ DoTaskCreatePlain
    \/ DoTaskMove
    \/ DoProjectCreate
    \/ DoProjectUpdate
    \/ DoAddTask

SpecProject == InitSharedTeams /\ [][NextProject]_vars

\* concurrent join requests, each the three steps of the handler
NextJoin ==
    \/ DoJoinLookup
    \/ DoJoinCheck
    \/ DoJoinAdd

SpecJoin == InitJoin /\ [][NextJoin]_vars

\* ---------------------------------------------------------------- properties
ReadOps == {"task_list", "task_retrieve", "task_overdue", "task_today"}

\* C1: every task a task read (list, retrieve, overdue, today) returns to a user who is
\* not a superuser belongs to a team that user leads or is a member of.
C1_ReadsOnlyOwnTeams ==
    (last.op \in ReadOps /\ last.user \notin Superusers) =>
        \A k \in BagToSet(last.rows) : IsTeamMember(teams[tasks[k].team], last.user)

\* C2: a team update or delete of an existing team succeeds when the requester is the
\* team's lead or a superuser, and otherwise ends in 403 with the team unchanged.
C2_LeadOrSuperuserElseDenied ==
    (last.op \in {"team_update", "team_destroy"} /\ RealRow(last.prev)) =>
        IF last.prev.team_lead = last.user \/ last.user \in Superusers
        THEN last.code \in {200, 204}
        ELSE last.code = 403 /\ teams[last.pk] = last.prev

\* C3: a task create in team T and an update of an existing task that resolves to team T
\* end alike: success when the requester is lead or member of T or a superuser, 403
\* otherwise (the responsible being absent or in T, so that only the access check decides).
C3_SameOutcomeOnCreateAndUpdate ==
    LET T == last.arg[1]
        r == last.arg[2] IN
    (/\ last.op \in {"task_create", "task_update"}
     /\ last.op = "task_update" => RealRow(last.prev)
     /\ T # None
     /\ r = None \/ IsTeamMember(teams[T], r)) =>
        IF IsTeamMember(teams[T], last.user) \/ last.user \in Superusers
        THEN last.code \in {200, 201}
        ELSE last.code = 403

\* a join request on an existing active team has just been answered
JoinAnswered == last.op = "join" /\ RealRow(last.prev) /\ last.prev.is_active

\* the parts of the join claim that do not depend on who the lead is: no error, no
\* change of lead or activity, and no change at all for a user already lead or member
JoinLeavesRest ==
    LET u == last.user
        was == last.prev
        now == teams[last.pk] IN
    /\ last.code = 200
    /\ now.team_lead = was.team_lead /\ now.is_active = was.is_active
    /\ IF was.team_lead = u \/ BagIn(u, was.members)
       THEN last.detail = "You are already a team member" /\ now = was
       ELSE /\ last.detail = "Joined team successfully"
            /\ BagToSet(now.members) = BagToSet(was.members) \cup {u}
            /\ \A m \in BagToSet(was.members) : CopiesIn(m, now.members) = CopiesIn(m, was.members)

\* C4 (as stated): after a join by U on an active team the member set holds U exactly
\* once, the join is no error, and a join by a lead or member changes nothing.
C4_JoinMemberExactlyOnce ==
    JoinAnswered =>
        JoinLeavesRest /\ CopiesIn(last.user, teams[last.pk].members) = 1

\* C4 (amended): after a join by U on an active team the member set holds U at most once,
\* and exactly once unless U is the lead and was not in the member set; the join is no
\* error, and a join by a lead or member changes nothing.
C4_JoinIdempotent ==
    JoinAnswered =>
        /\ JoinLeavesRest
        /\ CopiesIn(last.user, teams[last.pk].members) =
              IF last.prev.team_lead = last.user /\ ~BagIn(last.user, last.prev.members)
              THEN 0 ELSE 1

\* a member who joined before joins again and gets the "already a member" answer
C4_Witness ==
    /\ JoinAnswered
    /\ last.detail = "You are already a team member"
    /\ last.prev.team_lead # last.user
    /\ CopiesIn(last.user, teams[last.pk].members) = 1

\* the requester can see the task the request named
SawTask == RealRow(last.prev) /\ IsTeamMember(teams[last.prev.team], last.user)

\* C5: complete on a visible task leaves is_completed = TRUE and completed_at set; reopen
\* on a visible task leaves status "todo", is_completed = FALSE and completed_at NULL,
\* whatever the status was; the admin's mark_completed completes every selected task.
C5_CompleteAndReopen ==
    /\ (last.op = "task_complete" /\ SawTask) =>
          /\ last.code = 200
          /\ tasks[last.pk].is_completed
          /\ tasks[last.pk].completed_at # NullTime
    /\ (last.op = "task_reopen" /\ SawTask) =>
          /\ last.code = 200
          /\ tasks[last.pk].status = "todo"
          /\ ~tasks[last.pk].is_completed
          /\ tasks[last.pk].completed_at = NullTime
    /\ last.op = "admin_mark_completed" =>
          \A k \in BagToSet(last.rows) :
              tasks[k].is_completed /\ tasks[k].completed_at # NullTime

\* a completed task whose status was set to "progress" is reopened and ends in "todo"
C5_Witness ==
    /\ last.op = "task_reopen" /\ last.code = 200
    /\ last.prev.status = "progress" /\ last.prev.is_completed
    /\ tasks[last.pk].status = "todo"

\* add_task on a project the requester can see
AddTaskOnVisible ==
    /\ last.op = "add_task"
    /\ RealRow(last.prev)
    /\ IsTeamMember(teams[last.prev.team], last.user)

\* C6: add_task on a visible project with a task of another team, or with the id of no
\* task, ends in 404 (never 403) and leaves the project's task set unchanged.
C6_CrossTeamAttachNotFound ==
    (AddTaskOnVisible
     /\ (~Exists(tasks, last.arg[2]) \/ tasks[last.arg[2]].team # last.prev.team)) =>
        last.code = 404 /\ projects[last.pk] = last.prev

\* a member of the project's team asks to attach an existing task of another team
C6_Witness ==
    /\ AddTaskOnVisible
    /\ Exists(tasks, last.arg[2])
    /\ tasks[last.arg[2]].team # last.prev.team
    /\ last.code = 404

\* C7: a team is in a user's team queryset, once, iff the user is its lead or in its
\* member set, whether the team is active or not and the user a superuser or not; the
\* team list returns that queryset, and retrieve finds a team iff it is in it.
C7_TeamVisibleIffLeadOrMember ==
    /\ \A u \in Users, t \in TeamIds :
          CopiesIn(t, TeamQueryset(u)) =
              IF Exists(teams, t) /\ (teams[t].team_lead = u \/ BagIn(u, teams[t].members))
              THEN 1 ELSE 0
    /\ last.op = "team_list" => last.rows = TeamQueryset(last.user)
    /\ last.op = "team_retrieve" =>
          last.code = IF /\ RealRow(last.prev)
                         /\ \/ last.prev.team_lead = last.user
                            \/ BagIn(last.user, last.prev.members)
                      THEN 200 ELSE 404

\* a superuser lists teams while an inactive team exists that they neither lead nor
\* belong to, and a lead who is not in the member set is listed their inactive team
C7_Witness ==
    /\ last.op = "team_list"
    /\ \E t \in TeamIds :
          /\ Exists(teams, t) /\ ~teams[t].is_active
          /\ \/ /\ last.user \in Superusers
                /\ ~IsTeamMember(teams[t], last.user)
                /\ ~BagIn(t, last.rows)
                /\ teams[t].members # EmptyBag
             \/ /\ teams[t].team_lead = last.user
                /\ ~BagIn(last.user, teams[t].members)
                /\ CopiesIn(t, last.rows) = 1
                /\ last.user \notin Superusers

\* C8: every task in a project's task set belongs to the project's team.
C8_ProjectTasksSameTeam ==
    \A p \in ProjectIds :
        Exists(projects, p) =>
            \A k \in projects[p].tasks : Exists(tasks, k) /\ tasks[k].team = projects[p].team

\* every stored task has a team, and a responsible who is absent or lead or member of it
TaskResponsibleInTeam(tbl) ==
    \A k \in TaskIds :
        RealRow(tbl[k]) =>
            /\ tbl[k].team # None
            /\ tbl[k].responsible = None \/ IsTeamMember(teams[tbl[k].team], tbl[k].responsible)

\* the request just answered is a task create, or an update of an existing task, whose
\* resulting responsible is neither lead nor member of its resulting team
OutsideResponsible(resp) ==
    /\ resp.op \in {"task_create", "task_update"}
    /\ resp.op = "task_update" => RealRow(resp.prev)
    /\ resp.arg[1] # None /\ resp.arg[2] # None
    /\ ~IsTeamMember(teams[resp.arg[1]], resp.arg[2])

\* C9 (as stated): stored tasks keep a team and a responsible of that team, and a create
\* or update with an outside responsible ends in ValidationError (400), changing nothing.
C9_OutsideResponsibleIs400 ==
    [][/\ TaskResponsibleInTeam(tasks)'
       /\ OutsideResponsible(last') =>
             last'.code = 400 /\ UNCHANGED <<teams, tasks, projects>>]_vars

\* C9 (amended): stored tasks keep a team and a responsible of that team, and a create
\* or update with an outside responsible is rejected, changing nothing: with 404 when it
\* updates a task the requester cannot see, else with 403 when the requester is neither
\* lead nor member of the resulting team nor a superuser, else with 400.
C9_OutsideResponsibleRejected ==
    [][/\ TaskResponsibleInTeam(tasks)'
       /\ OutsideResponsible(last') =>
             /\ last'.code =
                  IF /\ last'.op = "task_update"
                     /\ ~IsTeamMember(teams[last'.prev.team], last'.user)
                  THEN 404
                  ELSE IF /\ ~IsTeamMember(teams[last'.arg[1]], last'.user)
                          /\ last'.user \notin Superusers
                  THEN 403
                  ELSE 400
             /\ UNCHANGED <<teams, tasks, projects>>]_vars

\* an update that moves a task to a team its current responsible is not in ends in 400
C9_Witness ==
    /\ last.op = "task_update" /\ last.code = 400
    /\ RealRow(last.prev)
    /\ last.arg[1] # None /\ last.arg[1] # last.prev.team
    /\ last.arg[2] # None /\ last.arg[2] = last.prev.responsible
    /\ tasks[last.pk] = last.prev

AllDone == \A r \in JoinReqs : reqs[r].pc = "done"

\* no step of a join takes a user out of the member set or changes a lead
MembershipKept ==
    \A t \in TeamIds :
        RealRow(teams[t]) =>
            /\ RealRow(teams'[t])
            /\ teams'[t].team_lead = teams[t].team_lead
            /\ \A m \in BagToSet(teams[t].members) : BagIn(m, teams'[t].members)

====
